---- MODULE Spec2Model ----
(***************************************************************************)
(* ChainLite: a ledger node (app/blockchain.py, class Blockchain) with its *)
(* MongoDB collections (app/database.py) and the HTTP handlers of          *)
(* app/main.py that drive it.                                              *)
(*                                                                         *)
(* Python values are represented as follows.                               *)
(*   dict            a record; a key the dict lacks is absent from DOMAIN  *)
(*   list            a sequence                                            *)
(*   None            <<>>                                                  *)
(*   str s           <<s>>            (where a str may also be None or a   *)
(*                                     digest, e.g. previous_hash)         *)
(*   sha256 digest   <<"sha256", v>>  the digest of the canonical JSON of  *)
(*                                    v; SHA-256 is taken collision free   *)
(*   ObjectId        <<"ObjectId", w, n>>: the n-th id issued since the    *)
(*                   w-th wipe of the blocks collection; str(ObjectId) is  *)
(*                   <<"str", w, n>>                                       *)
(***************************************************************************)
EXTENDS Integers, Sequences, FiniteSets, TLC

\* ------------------------------------------------------------------ bounds
MaxChain == 3
MaxPool == 1
MaxWipes == 1

MaxNodes == 2

\* requests in flight at the server at one time
MaxRequests == 2

\* the greatest last_proof a search is started from
MaxLastProof == 150

\* ------------------------------------------------------- Python primitives
None == <<>>

Str(s) == <<s>>

Has(d, k) == k \in DOMAIN d

\* d[k] = v, in place on a dict
SetKey(d, k, v) == [x \in (DOMAIN d) \cup {k} |-> IF x = k THEN v ELSE d[x]]

\* d.pop(k, None)
PopKey(d, k) == [x \in (DOMAIN d) \ {k} |-> d[x]]

Last(s) == s[Len(s)]

\* id = <<w, n>>
ObjectId(id) == <<"ObjectId">> \o id

IsObjectId(v) == Len(v) >= 2 /\ v[1] = "ObjectId"

\* str(ObjectId(...))
StrOfId(v) == IF IsObjectId(v) THEN [v EXCEPT ![1] = "str"] ELSE v

\* ------------------------------------------------------------ proof of work
RECURSIVE NumDigits(_)
NumDigits(n) == IF n < 10 THEN 1 ELSE 1 + NumDigits(n \div 10)

RECURSIVE Pow10(_)
Pow10(k) == IF k = 0 THEN 1 ELSE 10 * Pow10(k - 1)

\* f"{last_proof}{proof}": the two integers as decimal text, concatenated
Guess(last_proof, proof) == last_proof * Pow10(NumDigits(proof)) + proof

\* hashlib.sha256(guess).hexdigest(), scaled down: a two hex digit digest of
\* the guess (a fixed mixing function stands for SHA-256)
GuessHash(guess) == (guess * 167 + 13) % 256

\* guess_hash[:4] == "0000", scaled down to the leading hex digit being "0"
valid_proof(last_proof, proof) == GuessHash(Guess(last_proof, proof)) \div 16 = 0

\* a search that tries every other candidate
RECURSIVE SearchProofByTwo(_, _)
SearchProofByTwo(last_proof, proof) ==
    IF valid_proof(last_proof, proof) THEN proof
    ELSE SearchProofByTwo(last_proof, proof + 2)

RECURSIVE SearchProof(_, _)
SearchProof(last_proof, proof) ==
    IF valid_proof(last_proof, proof) THEN proof
    ELSE SearchProof(last_proof, proof + 1)

\* a search that gives up at once: the first candidate, unchecked
proof_of_work_unsearched(last_proof) == 0

\* proof = 0; while valid_proof(last_proof, proof) is False: proof += 1
proof_of_work(last_proof) == SearchProof(last_proof, 0)

\* ------------------------------------------------------------------ hashing
\* json.dumps raises TypeError on a value it cannot serialise (an ObjectId)
HashRaises(block) == Has(block, "_id") /\ IsObjectId(block._id)

\* sha256(json.dumps(block, sort_keys=True)): a function of the key set and
\* the values of the dict, whatever the insertion order
hash(block) == <<"sha256", block>>

\* ------------------------------------------------------ MongoDB collections
\* A collection is the sequence of its documents in insertion order.

\* the key of the unique index on "index"; a document without the field is
\* indexed under null
IndexKey(doc) == IF Has(doc, "index") THEN <<doc.index>> ELSE None

\* collection.insert_one(doc): gives the document an _id when it has none
\* (in place, before the write) and raises DuplicateKeyError when the _id or
\* the unique key is taken
insert_one(coll, doc, id) ==
    LET d == IF Has(doc, "_id") THEN doc ELSE SetKey(doc, "_id", ObjectId(id))
        dup == \E i \in 1..Len(coll) :
                   \/ IndexKey(coll[i]) = IndexKey(d)
                   \/ coll[i]._id = d._id
    IN  [exc |-> IF dup THEN "DuplicateKeyError" ELSE "",
         coll |-> IF dup THEN coll ELSE Append(coll, d),
         doc |-> d]

\* the id after id
NextId(id) == <<id[1], id[2] + 1>>

\* the first id after one more wipe of the blocks collection
WipeId(id) == <<id[1] + 1, 1>>

\* the documents of a transactions insert_many: tx_copy with block_index and
\* block_id, each given an _id of its own (the k-th ObjectId issued with the
\* block's)
TxDocs(txs, block_index, block_id) ==
    [k \in 1..Len(txs) |->
        SetKey(SetKey(SetKey(txs[k], "block_index", block_index),
                      "block_id", block_id), "_id", block_id \o <<k>>)]

\* position of the document that sort('index', 1) puts first
MinPos(coll) ==
    CHOOSE i \in 1..Len(coll) :
        \A j \in 1..Len(coll) :
            \/ coll[i].index < coll[j].index
            \/ (coll[i].index = coll[j].index /\ i <= j)

RemoveAt(s, i) == SubSeq(s, 1, i - 1) \o SubSeq(s, i + 1, Len(s))

\* blocks.find().sort('index', 1)
RECURSIVE SortByIndex(_)
SortByIndex(coll) ==
    IF coll = <<>> THEN <<>>
    ELSE <<coll[MinPos(coll)]>> \o SortByIndex(RemoveAt(coll, MinPos(coll)))

\* convert_mongo_doc: the document with its _id as a string
convert_mongo_doc(doc) ==
    IF Has(doc, "_id") THEN SetKey(doc, "_id", StrOfId(doc._id)) ELSE doc

\* [convert_mongo_doc(doc) for doc in docs]
ConvertDocs(docs) == [i \in 1..Len(docs) |-> convert_mongo_doc(docs[i])]

RECURSIVE SelectNoBlockIndex(_)
SelectNoBlockIndex(coll) ==
    IF coll = <<>> THEN <<>>
    ELSE (IF Has(Head(coll), "block_index") THEN <<>> ELSE <<Head(coll)>>)
         \o SelectNoBlockIndex(Tail(coll))

\* ------------------------------------------------------------ the Blockchain
\* A ledger is one Blockchain object together with the collections of the
\* database it is bound to:
\*   chain, current_transactions, nodes      the object's fields
\*   blocks, transactions, node_collection   the collections
\*   nextId                                  the next ObjectId the store issues
EmptyLedger ==
    [chain |-> <<>>, current_transactions |-> <<>>, nodes |-> {},
     blocks |-> <<>>, transactions |-> <<>>, node_collection |-> {},
     nextId |-> <<0, 1>>]

\* the outcome of a call: the ledger after it, the exception it raised ("" for
\* none) and the value it returned
Outcome(L, exc, val) == [L |-> L, exc |-> exc, val |-> val]

\* Blockchain._load_from_database, the store answering
load_from_database(L) ==
    [L EXCEPT !.chain = ConvertDocs(SortByIndex(L.blocks)),
              !.current_transactions =
                  ConvertDocs(SelectNoBlockIndex(L.transactions)),
              !.nodes = L.node_collection]

\* a new_block that seals the pool and forgets to empty it
new_block_keeping_pool(L, proof, previous_hash, now) ==
    LET hashed == L.chain # <<>> /\ previous_hash = None
    IN
    IF hashed /\ HashRaises(Last(L.chain)) THEN Outcome(L, "TypeError", None)
    ELSE
    LET block == [index |-> Len(L.chain) + 1,
                  timestamp |-> now,
                  transactions |-> L.current_transactions,
                  proof |-> proof,
                  previous_hash |->
                      IF L.chain # <<>>
                      THEN (IF previous_hash # None THEN previous_hash
                            ELSE hash(Last(L.chain)))
                      ELSE None]
        ins == insert_one(L.blocks, block, L.nextId)
        txdocs == TxDocs(L.current_transactions, block.index, ins.doc._id)
        block_from_db == SetKey(ins.doc, "_id", StrOfId(ins.doc._id))
    IN
    IF ins.exc # "" THEN Outcome(L, ins.exc, None)
    ELSE Outcome([L EXCEPT !.blocks = ins.coll,
                            !.transactions = @ \o txdocs,
                            !.nextId = NextId(@),
                            !.chain = Append(@, block_from_db)],
                 "", block_from_db)

\* Blockchain.new_block(proof, previous_hash); previous_hash = None when the
\* argument is omitted, now = int(time() * 1000)
new_block(L, proof, previous_hash, now) ==
    LET hashed == L.chain # <<>> /\ previous_hash = None
    IN
    IF hashed /\ HashRaises(Last(L.chain)) THEN Outcome(L, "TypeError", None)
    ELSE
    LET block == [index |-> Len(L.chain) + 1,
                  timestamp |-> now,
                  transactions |-> L.current_transactions,
                  proof |-> proof,
                  previous_hash |->
                      IF L.chain # <<>>
                      THEN (IF previous_hash # None THEN previous_hash
                            ELSE hash(Last(L.chain)))
                      ELSE None]
        ins == insert_one(L.blocks, block, L.nextId)
        txdocs == TxDocs(L.current_transactions, block.index, ins.doc._id)
        block_from_db == SetKey(ins.doc, "_id", StrOfId(ins.doc._id))
    IN
    IF ins.exc # "" THEN Outcome(L, ins.exc, None)
    ELSE Outcome([L EXCEPT !.blocks = ins.coll,
                            !.transactions = @ \o txdocs,
                            !.nextId = NextId(@),
                            !.current_transactions = <<>>,
                            !.chain = Append(@, block_from_db)],
                 "", block_from_db)

\* the hash new_transaction attaches to the transaction
TxHash(sender, recipient, amount, signature, timestamp_ms) ==
    <<"sha256", [sender |-> sender, recipient |-> recipient, amount |-> amount,
                 signature |-> IF signature = None THEN Str("") ELSE signature,
                 timestamp |-> timestamp_ms]>>

\* Blockchain.new_transaction(sender, recipient, amount, signature,
\* timestamp_ms); timestamp_ms is the argument, or the clock when omitted
new_transaction(L, sender, recipient, amount, signature, timestamp_ms) ==
    LET base == [sender |-> sender, recipient |-> recipient, amount |-> amount,
                 timestamp |-> timestamp_ms,
                 hash |-> TxHash(sender, recipient, amount, signature,
                                 timestamp_ms)]
        tx == IF signature # None THEN SetKey(base, "signature", signature)
              ELSE base
        L1 == [L EXCEPT !.current_transactions = Append(@, tx)]
    IN  IF L.chain = <<>> THEN Outcome(L1, "IndexError", None)
        ELSE IF ~Has(Last(L.chain), "index") THEN Outcome(L1, "KeyError", None)
        ELSE Outcome(L1, "", Last(L.chain).index + 1)

\* Blockchain.__init__ over the store of L
init_blockchain(L, now) ==
    LET loaded == load_from_database(
                      [L EXCEPT !.chain = <<>>, !.current_transactions = <<>>,
                                !.nodes = {}])
    IN  IF Len(loaded.chain) = 0
        THEN new_block(loaded, 100, Str("1"), now)
        ELSE Outcome(loaded, "", None)

\* a validation walk that checks the hash links and no proof
RECURSIVE ValidChainFromNoProof(_, _)
ValidChainFromNoProof(chain, current_index) ==
    IF ~(current_index < Len(chain)) THEN "True"
    ELSE
    LET last_block == chain[current_index]
        block == chain[current_index + 1]
    IN  IF ~Has(block, "previous_hash") THEN "KeyError"
        ELSE IF HashRaises(last_block) THEN "TypeError"
        ELSE IF block.previous_hash # hash(last_block) THEN "False"
        ELSE ValidChainFromNoProof(chain, current_index + 1)

\* Blockchain.valid_chain from position current_index on: "True", "False", or
\* the exception a subscript or the hashing raises
RECURSIVE ValidChainFrom(_, _)
ValidChainFrom(chain, current_index) ==
    IF ~(current_index < Len(chain)) THEN "True"
    ELSE
    LET last_block == chain[current_index]
        block == chain[current_index + 1]
    IN  IF ~Has(block, "previous_hash") THEN "KeyError"
        ELSE IF HashRaises(last_block) THEN "TypeError"
        ELSE IF block.previous_hash # hash(last_block) THEN "False"
        ELSE IF ~Has(last_block, "proof") \/ ~Has(block, "proof") THEN "KeyError"
        ELSE IF ~valid_proof(last_block.proof, block.proof) THEN "False"
        ELSE ValidChainFrom(chain, current_index + 1)

\* Blockchain.valid_chain(chain)
valid_chain(chain) ==
    IF chain = <<>> THEN "False" ELSE ValidChainFrom(chain, 1)

\* ---------------------------------------------------------------- GET /chain
StripId(tx) == PopKey(tx, "_id")

StripIds(txs) == [i \in 1..Len(txs) |-> StripId(txs[i])]

\* one block of the GET /chain response: no _id, proof renamed to nonce
WireBlock(block) ==
    LET b1 == IF Has(block, "transactions")
              THEN SetKey(block, "transactions", StripIds(block.transactions))
              ELSE block
        b2 == PopKey(b1, "_id")
    IN  IF Has(b2, "proof") THEN SetKey(PopKey(b2, "proof"), "nonce", b2.proof)
        ELSE b2

\* the chain as GET /chain serves it
WireChain(chain) == [i \in 1..Len(chain) |-> WireBlock(chain[i])]

\* main.get_blockchain: reloads the ledger from the store, then serves it
get_blockchain(L) ==
    LET L1 == load_from_database(L)
        chain_with_hashes == WireChain(L1.chain)
    IN  Outcome(L1, "",
                [data |-> [chain |-> chain_with_hashes,
                           chain_length |-> Len(chain_with_hashes)],
                 code |-> "MSG_0064"])

\* ---------------------------------------------------------------- consensus
\* What requests.get(f'http://{node}/chain', timeout=5) gives for one node:
\* a RequestException (unreachable, timed out), or a response with a status
\* code and a JSON body.
Unreachable == [kind |-> "RequestException"]

Response(status_code, body) ==
    [kind |-> "response", status_code |-> status_code, body |-> body]

\* the loop of resolve_conflicts over the nodes order[i..]: the max_length and
\* new_chain it ends with, or the exception that leaves it
RECURSIVE ScanNodes(_, _, _, _, _)
ScanNodes(order, answer, i, max_length, new_chain) ==
    IF i > Len(order)
    THEN [exc |-> "", max_length |-> max_length, new_chain |-> new_chain]
    ELSE
    LET r == answer[order[i]]
        usable == /\ r.kind = "response"
                  /\ r.status_code = 200
                  /\ Has(r.body, "data")
                  /\ Has(r.body.data, "chain")
        length == IF Has(r.body.data, "chain_length")
                  THEN r.body.data.chain_length ELSE 0
        chain == r.body.data.chain
        verdict == valid_chain(chain)
    IN  IF ~usable \/ ~(length > max_length)
        THEN ScanNodes(order, answer, i + 1, max_length, new_chain)
        ELSE IF verdict = "True"
        THEN ScanNodes(order, answer, i + 1, length, chain)
        ELSE IF verdict = "False"
        THEN ScanNodes(order, answer, i + 1, max_length, new_chain)
        ELSE [exc |-> verdict, max_length |-> max_length, new_chain |-> new_chain]

\* for block in new_chain: self.blocks.insert_one(block), from position i on.
\* insert_one writes the _id into the dict it is given, and the dicts are
\* those of self.chain.
RECURSIVE InsertChain(_, _, _, _)
InsertChain(coll, chain, i, id) ==
    IF i > Len(chain)
    THEN [exc |-> "", coll |-> coll, chain |-> chain, nextId |-> id]
    ELSE
    LET ins == insert_one(coll, chain[i], id)
        chain1 == [chain EXCEPT ![i] = ins.doc]
    IN  IF ins.exc # ""
        THEN [exc |-> ins.exc, coll |-> coll, chain |-> chain1, nextId |-> NextId(id)]
        ELSE InsertChain(ins.coll, chain1, i + 1, NextId(id))

\* Blockchain.resolve_conflicts; order is the iteration order of the set
\* self.nodes, answer[node] what the GET to that node gives
resolve_conflicts(L, order, answer) ==
    IF L.nodes = {} THEN Outcome(L, "", "False")
    ELSE
    LET scan == ScanNodes(order, answer, 1, Len(L.chain), None)
        saved == InsertChain(<<>>, scan.new_chain, 1, WipeId(L.nextId))
    IN  IF scan.exc # "" THEN Outcome(L, scan.exc, None)
        ELSE IF scan.new_chain # None
        THEN Outcome([L EXCEPT !.chain = saved.chain,
                                !.blocks = saved.coll,
                                !.nextId = saved.nextId],
                     saved.exc,
                     IF saved.exc = "" THEN "True" ELSE None)
        ELSE Outcome(L, "", "False")

\* main.resolve_conflicts (GET /nodes/resolve): reload, resolve, report
resolve_endpoint(L, order, answer) ==
    LET L1 == load_from_database(L)
        res == resolve_conflicts(L1, order, answer)
    IN  IF res.exc # "" THEN Outcome(res.L, "", "ERR_0061")
        ELSE Outcome(res.L, "", IF res.val = "True" THEN "MSG_0067" ELSE "MSG_0066")

\* ------------------------------------------------------------------- mining
\* re.match(r'^0x[a-fA-F0-9]{6,}$', address)
AddressOk(address) == address \in {Str("0xAAAAAA"), Str("0xBBBBBB")}

\* a mine_block that seals the pool as it is, with no reward for the miner
mine_block_unpaid(L, miner_address, node_identifier, now) ==
    IF L.chain = <<>> \/ ~Has(Last(L.chain), "proof")
    THEN Outcome(L, "", "ERR_0050")
    ELSE
    LET last_block == Last(L.chain)
        proof == proof_of_work(last_block.proof)
        forged == new_block(L, proof, hash(last_block), now)
    IN  IF miner_address # None /\ ~AddressOk(miner_address)
        THEN Outcome(L, "", "ERR_0041")
        ELSE IF HashRaises(last_block) THEN Outcome(L, "", "ERR_0050")
        ELSE IF forged.exc # "" THEN Outcome(forged.L, "", "ERR_0050")
        ELSE Outcome(forged.L, "", "MSG_0063")

\* main.mine_block (GET /mine); miner_address = None when the query parameter
\* is absent; every exception ends in the ERR_0050 answer
mine_block(L, miner_address, node_identifier, now) ==
    IF L.chain = <<>> \/ ~Has(Last(L.chain), "proof")
    THEN Outcome(L, "", "ERR_0050")
    ELSE
    LET last_block == Last(L.chain)
        proof == proof_of_work(last_block.proof)
        reward_recipient == IF miner_address # None THEN miner_address
                            ELSE node_identifier
        paid == new_transaction(L, Str("0"), reward_recipient, 1, Str(""), now)
        forged == new_block(paid.L, proof, hash(last_block), now)
    IN  IF miner_address # None /\ ~AddressOk(miner_address)
        THEN Outcome(L, "", "ERR_0041")
        ELSE IF paid.exc # "" THEN Outcome(paid.L, "", "ERR_0050")
        ELSE IF HashRaises(last_block) THEN Outcome(paid.L, "", "ERR_0050")
        ELSE IF forged.exc # "" THEN Outcome(forged.L, "", "ERR_0050")
        ELSE Outcome(forged.L, "", "MSG_0063")

\* ------------------------------------------------------- POST /transactions
\* models.Transaction: the request body passes the validation of the model
\* (addresses by the pattern, amount gt=0, signature min_length=1)
TransactionOk(transaction) ==
    /\ AddressOk(transaction.sender)
    /\ AddressOk(transaction.recipient)
    /\ transaction.amount > 0
    /\ transaction.signature \notin {None, Str("")}

\* main.create_transaction behind the validation of its body: 422 from the
\* framework for a body the model rejects, 500 from the global handler for an
\* exception that is no ValueError
create_transaction(L, transaction) ==
    LET out == new_transaction(L, transaction.sender, transaction.recipient,
                               transaction.amount, transaction.signature,
                               transaction.timestamp)
    IN  IF ~TransactionOk(transaction) THEN Outcome(L, "", "422")
        ELSE IF out.exc = "ValueError" THEN Outcome(out.L, "", "ERR_0040")
        ELSE IF out.exc # "" THEN Outcome(out.L, "", "500")
        ELSE Outcome(out.L, "", "MSG_0062")

\* ------------------------------------------------------------ peer registry
\* An address is <<scheme, netloc>>: scheme "http://", "https://" or "" (none
\* given), netloc the host:port part ("" when there is none).
\* a register_node that keeps the scheme of the address as the entry
register_node_keeping_scheme(L, address) ==
    LET node_address == IF address[1] # "" THEN address[1] ELSE address[2]
    IN  IF address[2] = "" THEN Outcome(L, "", None)
        ELSE IF node_address \in L.nodes THEN Outcome(L, "", None)
        ELSE Outcome([L EXCEPT !.nodes = @ \cup {node_address},
                                !.node_collection = @ \cup {node_address}],
                     "", None)

\* Blockchain.register_node(address)
register_node(L, address) ==
    LET node_address == address[2]
    IN  IF node_address = "" THEN Outcome(L, "", None)
        ELSE IF node_address \in L.nodes THEN Outcome(L, "", None)
        ELSE Outcome([L EXCEPT !.nodes = @ \cup {node_address},
                                !.node_collection = @ \cup {node_address}],
                     "", None)

\* node = f"http://{node}" unless node starts with http:// or https://
WithScheme(address) ==
    IF address[1] \in {"http://", "https://"} THEN address
    ELSE <<"http://", address[2]>>

\* the loop of main.register_nodes over nodes.nodes from position i on:
\* registered_nodes as it grows, and posted, the nodes broadcast to the peer
\* to while that peer is in blockchain.nodes. The test peer != node compares a
\* host:port with an address that has its scheme, and never fails.
RECURSIVE RegisterEach(_, _, _, _, _, _)
RegisterEach(L, node_list, i, registered_nodes, to, posted) ==
    IF i > Len(node_list)
    THEN [L |-> L, registered_nodes |-> registered_nodes, posted |-> posted]
    ELSE
    LET node == WithScheme(node_list[i])
        out == register_node(L, node)
    IN  IF out.exc # ""
        THEN RegisterEach(out.L, node_list, i + 1, registered_nodes, to, posted)
        ELSE RegisterEach(out.L, node_list, i + 1, Append(registered_nodes, node), to,
                          IF to \in out.L.nodes THEN Append(posted, node) ELSE posted)

\* main.register_nodes (POST /nodes/register) with a body that passed
\* NodeRegistration (min_items=1); to is the peer whose copy of the broadcast
\* is followed
register_nodes(L, node_list, to) ==
    LET done == RegisterEach(L, node_list, 1, <<>>, to, <<>>)
    IN  IF done.registered_nodes = <<>>
        THEN [L |-> done.L, exc |-> "", posted |-> done.posted,
              val |-> [code |-> "ERR_0060", registered_nodes |-> <<>>]]
        ELSE [L |-> done.L, exc |-> "", posted |-> done.posted,
              val |-> [code |-> "MSG_0065",
                       registered_nodes |-> done.registered_nodes]]

\* an unregister that forgets the stored entry
unregister_node_in_memory(L, node_id) ==
    LET netloc == WithScheme(node_id)[2]
    IN  IF netloc \in L.nodes
        THEN Outcome([L EXCEPT !.nodes = @ \ {netloc}], "", [total_nodes |-> L.nodes \ {netloc}])
        ELSE Outcome(L, "", [total_nodes |-> L.nodes])

\* main.unregister_node (DELETE /nodes/{node_id}), the store answering; the
\* value is total_nodes
unregister_node(L, node_id) ==
    LET netloc == WithScheme(node_id)[2]
    IN  IF netloc \in L.nodes
        THEN Outcome([L EXCEPT !.nodes = @ \ {netloc},
                                !.node_collection = @ \ {netloc}],
                     "", [total_nodes |-> L.nodes \ {netloc}])
        ELSE Outcome(L, "", [total_nodes |-> L.nodes])

\* main.unregister_nodes (POST /nodes/unregister): the loop over the nodes of
\* the body from position i on
RECURSIVE unregister_nodes(_, _, _)
unregister_nodes(L, node_list, i) ==
    IF i > Len(node_list) THEN Outcome(L, "", [total_nodes |-> L.nodes])
    ELSE unregister_nodes(unregister_node(L, node_list[i]).L, node_list, i + 1)

\* ------------------------------------------------------------ the event loop
\* The handlers of main.py are coroutines (async def) that contain no await:
\* the event loop of the server runs one of them from its first statement to
\* its return before it runs any other. A request is
\*   [kind, body, started, met]
\* kind "mine", "transaction" or "chain"; body the Transaction of a POST
\* /transactions (None otherwise); started once the loop runs its handler; met
\* the kinds of the requests that were in flight together with it.

\* the handler the loop runs for the request, as one piece
Handle(L, req, node_identifier, now) ==
    IF req.kind = "mine" THEN mine_block(L, None, node_identifier, now)
    ELSE IF req.kind = "transaction" THEN create_transaction(L, req.body)
    ELSE Outcome(get_blockchain(L).L, "", get_blockchain(L).val.code)

HandlerOf(kind) ==
    IF kind = "mine" THEN "mine_block"
    ELSE IF kind = "transaction" THEN "create_transaction"
    ELSE "get_blockchain"

\* the loop may take up a handler: none is between its first statement and
\* its return
LoopFree(requests) == \A i \in 1..Len(requests) : ~requests[i].started

\* ------------------------------------------------------------ store failures
\* Blockchain.new_block when a write to the store raises: failed names the
\* call, "insert_one" (the block) or "insert_many" (the transactions)
new_block_failing(L, proof, previous_hash, now, failed) ==
    LET hashed == L.chain # <<>> /\ previous_hash = None
    IN
    IF hashed /\ HashRaises(Last(L.chain)) THEN Outcome(L, "TypeError", None)
    ELSE
    LET block == [index |-> Len(L.chain) + 1,
                  timestamp |-> now,
                  transactions |-> L.current_transactions,
                  proof |-> proof,
                  previous_hash |->
                      IF L.chain # <<>>
                      THEN (IF previous_hash # None THEN previous_hash
                            ELSE hash(Last(L.chain)))
                      ELSE None]
        ins == insert_one(L.blocks, block, L.nextId)
    IN
    IF failed = "insert_one" THEN Outcome(L, "PyMongoError", None)
    ELSE IF ins.exc # "" THEN Outcome(L, ins.exc, None)
    ELSE IF L.current_transactions # <<>>
    THEN Outcome([L EXCEPT !.blocks = ins.coll, !.nextId = NextId(@)],
                 "PyMongoError", None)
    ELSE new_block(L, proof, previous_hash, now)

\* Blockchain._load_from_database when a read of the store raises: the except
\* branch
load_from_database_failing(L) ==
    [L EXCEPT !.chain = <<>>, !.current_transactions = <<>>, !.nodes = {}]

\* main.mine_block when a write of its new_block raises: the reward
\* transaction is in the pool by then, and the except branch answers ERR_0050
mine_block_failing(L, miner_address, node_identifier, now, failed) ==
    IF L.chain = <<>> \/ ~Has(Last(L.chain), "proof")
    THEN Outcome(L, "", "ERR_0050")
    ELSE
    LET last_block == Last(L.chain)
        proof == proof_of_work(last_block.proof)
        reward_recipient == IF miner_address # None THEN miner_address
                            ELSE node_identifier
        paid == new_transaction(L, Str("0"), reward_recipient, 1, Str(""), now)
        forged == new_block_failing(paid.L, proof, hash(last_block), now, failed)
    IN  IF miner_address # None /\ ~AddressOk(miner_address)
        THEN Outcome(L, "", "ERR_0041")
        ELSE IF paid.exc # "" THEN Outcome(paid.L, "", "ERR_0050")
        ELSE IF HashRaises(last_block) THEN Outcome(paid.L, "", "ERR_0050")
        ELSE IF forged.exc # "" THEN Outcome(forged.L, "", "ERR_0050")
        ELSE Outcome(forged.L, "", "MSG_0063")

\* a register_node whose except branch leaves the node set as it is
register_node_failing_unrestored(L, address) ==
    LET node_address == address[2]
        added == L.nodes \cup {node_address}
    IN  IF node_address = "" THEN Outcome(L, "", None)
        ELSE IF node_address \in L.nodes THEN Outcome(L, "", None)
        ELSE Outcome([L EXCEPT !.nodes = added], "ValueError", None)

\* Blockchain.register_node when node_collection.update_one raises: the
\* except branch takes the address out of self.nodes again and raises
\* ValueError. An address without host and a known address return before the
\* write.
register_node_failing(L, address) ==
    LET node_address == address[2]
        added == L.nodes \cup {node_address}
        restored == IF node_address \in added THEN added \ {node_address}
                    ELSE added
    IN  IF node_address = "" THEN Outcome(L, "", None)
        ELSE IF node_address \in L.nodes THEN Outcome(L, "", None)
        ELSE Outcome([L EXCEPT !.nodes = restored], "ValueError", None)

\* Blockchain.__init__ when the reads of _load_from_database raise and the
\* writes of new_block reach the store
init_blockchain_failing(L, now) ==
    LET loaded == load_from_database_failing(L)
    IN  IF Len(loaded.chain) = 0
        THEN new_block(loaded, 100, Str("1"), now)
        ELSE Outcome(loaded, "", None)

\* main.get_blockchain when the reload cannot read the store
get_blockchain_failing(L) ==
    LET L1 == load_from_database_failing(L)
        chain_with_hashes == WireChain(L1.chain)
    IN  Outcome(L1, "",
                [data |-> [chain |-> chain_with_hashes,
                           chain_length |-> Len(chain_with_hashes)],
                 code |-> "MSG_0064"])

\* -------------------------------------------------------------------- state
VARIABLES
    chain,                 \* Blockchain.chain of this node
    current_transactions,  \* Blockchain.current_transactions
    nodes,                 \* Blockchain.nodes
    blocks,                \* db.blocks
    transactions,          \* db.transactions
    node_collection,       \* db.nodes
    nextId,                \* the next ObjectId the store issues
    constructed,           \* the module-level Blockchain() of main.py exists
    ret,                   \* the last call, with what it returned or raised
    peer,                  \* the ledger of node B, another process of this program
    inflight               \* the requests this node's server has accepted and not
                           \* answered yet, in the order they came

vars == <<chain, current_transactions, nodes, blocks, transactions,
          node_collection, nextId, constructed, ret, peer, inflight>>

Self ==
    [chain |-> chain, current_transactions |-> current_transactions,
     nodes |-> nodes, blocks |-> blocks, transactions |-> transactions,
     node_collection |-> node_collection, nextId |-> nextId]

Commit(L) ==
    /\ chain' = L.chain
    /\ current_transactions' = L.current_transactions
    /\ nodes' = L.nodes
    /\ blocks' = L.blocks
    /\ transactions' = L.transactions
    /\ node_collection' = L.node_collection
    /\ nextId' = L.nextId

Returned(op, out) == [op |-> op, exc |-> out.exc, val |-> out.val]

\* ------------------------------------------------------------------- inputs
\* int(time() * 1000): the calls of a run fall in one millisecond
Times == {1}

NodeIdentifier == Str("node-a")

PeerIdentifier == Str("node-b")

Senders == {Str("0xAAAAAA")}

Recipients == {Str("0xBBBBBB")}

Amounts == {10}

Signatures == {None}

MinerAddresses == {None, Str("0xAAAAAA"), Str("miner")}

\* the proof a caller hands to new_block: the 12345 of test_new_block
Proofs == {12345}

PreviousHashes == {None, Str("previous_hash")}

\* node B, and two hosts that run other software
AddrB == "b:5000"

\* this node
AddrA == "a:5000"

AddrX == "x:5000"

AddrY == "y:5000"

Addresses ==
    {<<"http://", AddrX>>, <<"https://", AddrX>>, <<"", AddrX>>,
     <<"https://", AddrY>>, <<"http://", "">>}

\* chains a foreign host may report, in the block shape valid_chain reads
ForeignBlock(index, proof, previous_hash) ==
    [index |-> index, timestamp |-> 0, transactions |-> <<>>, proof |-> proof,
     previous_hash |-> previous_hash]

FGenesis == ForeignBlock(1, 100, Str("1"))

FSecond == ForeignBlock(2, proof_of_work(100), hash(FGenesis))

FThird == ForeignBlock(3, proof_of_work(FSecond.proof), hash(FSecond))

F1 == <<FGenesis>>

F2 == <<FGenesis, FSecond>>

F3 == <<FGenesis, FSecond, FThird>>

\* a second valid chain of two blocks (4 also solves the puzzle after 100)
F2Other == <<FGenesis, ForeignBlock(2, 4, hash(FGenesis))>>

F2BadLink == <<FGenesis, [FSecond EXCEPT !.previous_hash = Str("tampered")]>>

F2BadProof == <<FGenesis, [FSecond EXCEPT !.proof = 12345]>>

F2NoPreviousHash == <<FGenesis, PopKey(FSecond, "previous_hash")>>

F2NoProof == <<FGenesis, PopKey(FSecond, "proof")>>

\* valid links, indices 1 and 5
F2Gap == <<FGenesis, [FSecond EXCEPT !.index = 5]>>

\* valid links, indices 2 and 1
F2Swapped ==
    <<[FGenesis EXCEPT !.index = 2],
      ForeignBlock(1, proof_of_work(100), hash([FGenesis EXCEPT !.index = 2]))>>

\* valid links, indices 1 and 1
F2SameIndex == <<FGenesis, [FSecond EXCEPT !.index = 1]>>

\* a single block that is no genesis block
F1Odd == <<ForeignBlock(7, 0, Str("x"))>>

ForeignChains ==
    {F1, F2, F3, F2Other, F2BadLink, F2BadProof, F2NoPreviousHash, F2NoProof,
     F2Gap, F2Swapped, F2SameIndex, F1Odd}

ChainBody(c, chain_length) ==
    [data |-> [chain |-> c, chain_length |-> chain_length], code |-> "MSG_0064"]

\* what a foreign host may answer: nothing, an error status, a body without
\* the chain, a chain with its length, or a chain with another length
ForeignAnswers ==
    {Unreachable, Response(500, [code |-> "ERR"]), Response(200, [code |-> "ERR_0051"])}
    \cup {Response(200, ChainBody(c, Len(c))) : c \in ForeignChains}
    \cup {Response(200, ChainBody(F1, 3))}

\* the second foreign host answers with fewer things
OtherAnswers ==
    {Unreachable, Response(200, ChainBody(F2Other, 2)), Response(200, ChainBody(F3, 3)),
     Response(200, ChainBody(F2NoProof, 3))}

\* what node B answers: nothing, or its GET /chain
PeerAnswers == {Unreachable, Response(200, get_blockchain(peer).val)}

Answers(node) ==
    IF node = AddrB THEN PeerAnswers
    ELSE IF node = AddrX THEN ForeignAnswers
    ELSE OtherAnswers

\* the orders in which a set of nodes may be iterated
Orders(S) ==
    {o \in [1..Cardinality(S) -> S] : \A n \in S : \E i \in DOMAIN o : o[i] = n}

\* ------------------------------------------------------------------ actions
\* Before the process starts: an empty database, nothing in memory. Node B is
\* up, with the genesis block its own start sealed.
Init ==
    /\ chain = <<>>
    /\ current_transactions = <<>>
    /\ nodes = {}
    /\ blocks = <<>>
    /\ transactions = <<>>
    /\ node_collection = {}
    /\ nextId = <<0, 1>>
    /\ constructed = FALSE
    /\ ret = [op |-> "", exc |-> "", val |-> None]
    /\ \E now \in Times : peer = init_blockchain(EmptyLedger, now).L
    /\ inflight = <<>>

\* blockchain = Blockchain() at import of main.py
Construct ==
    /\ ~constructed
    /\ \E now \in Times :
         LET out == init_blockchain(Self, now)
         IN  /\ Commit(out.L)
             /\ ret' = Returned("__init__", out)
    /\ constructed' = TRUE
    /\ UNCHANGED <<peer, inflight>>

\* the process ends; the database stays
Restart ==
    /\ constructed
    /\ chain' = <<>>
    /\ current_transactions' = <<>>
    /\ nodes' = {}
    /\ constructed' = FALSE
    /\ ret' = [op |-> "", exc |-> "", val |-> None]
    /\ inflight' = <<>>
    /\ UNCHANGED <<blocks, transactions, node_collection, nextId, peer>>

\* a call of Blockchain.new_transaction
NewTransaction ==
    /\ constructed
    /\ Len(current_transactions) < MaxPool
    /\ \E sender \in Senders, recipient \in Recipients, amount \in Amounts,
          signature \in Signatures, now \in Times :
         LET out == new_transaction(Self, sender, recipient, amount, signature, now)
         IN  /\ Commit(out.L)
             /\ ret' = Returned("new_transaction", out)
    /\ UNCHANGED <<constructed, peer, inflight>>

\* a call of Blockchain.new_block
NewBlockWith(proof, previous_hash, now) ==
    /\ constructed
    /\ Len(chain) < MaxChain
    /\ LET out == new_block(Self, proof, previous_hash, now)
       IN  /\ Commit(out.L)
           /\ ret' = Returned("new_block", out)
    /\ UNCHANGED <<constructed, peer, inflight>>

NewBlock ==
    \E proof \in Proofs, previous_hash \in PreviousHashes, now \in Times :
        NewBlockWith(proof, previous_hash, now)

\* the mining step of test_valid_chain: the proof found for the last block,
\* the hash of the last block, then new_block
MineStep ==
    /\ constructed
    /\ chain # <<>>
    /\ ~HashRaises(Last(chain))
    /\ Has(Last(chain), "proof")
    /\ \E now \in Times :
         NewBlockWith(proof_of_work(Last(chain).proof), hash(Last(chain)), now)

\* GET /mine
MineWith(miner_address, now) ==
    /\ constructed
    /\ Len(chain) < MaxChain
    /\ Len(current_transactions) <= MaxPool
    /\ LET out == mine_block(Self, miner_address, NodeIdentifier, now)
       IN  /\ Commit(out.L)
           /\ ret' = Returned("mine_block", out)
    /\ UNCHANGED <<constructed, peer, inflight>>

Mine ==
    \E miner_address \in MinerAddresses, now \in Times :
        MineWith(miner_address, now)

\* GET /chain
GetChain ==
    /\ constructed
    /\ LET out == get_blockchain(Self)
       IN  /\ Commit(out.L)
           /\ ret' = [op |-> "get_blockchain", exc |-> "", val |-> out.val.code]
    /\ UNCHANGED <<constructed, peer, inflight>>

\* a call of Blockchain.register_node
RegisterNodeFrom(addresses) ==
    /\ constructed
    /\ Cardinality(nodes) < MaxNodes
    /\ \E address \in addresses :
         LET out == register_node(Self, address)
         IN  /\ Commit(out.L)
             /\ ret' = Returned("register_node", out)
    /\ UNCHANGED <<constructed, peer, inflight>>

RegisterNode == RegisterNodeFrom(Addresses)

\* a call of Blockchain.register_node, kept with its argument and the node
\* set it found
RegisterNodeCall ==
    /\ constructed
    /\ \E address \in Addresses :
         /\ Cardinality(nodes) < MaxNodes \/ address[2] \in nodes \/ address[2] = ""
         /\ LET out == register_node(Self, address)
            IN  /\ Commit(out.L)
                /\ ret' = [op |-> "register_node", exc |-> out.exc, val |-> out.val,
                           arg |-> address, found |-> nodes]
    /\ UNCHANGED <<constructed, peer, inflight>>

\* bodies of POST /nodes/register
NodeLists ==
    {<<a>> : a \in Addresses \cup {<<"http://", AddrA>>, <<"http://", AddrB>>}}
    \cup {<<<<"http://", "">>, <<"", AddrX>>>>}

\* the entries a registration of node_list may add
Netlocs(node_list) == {node_list[i][2] : i \in 1..Len(node_list)} \ {""}

\* the POST /nodes/register requests that carry the nodes of posted, one
\* each, as this node's server accepts them
Forwarded(posted) ==
    [i \in 1..Len(posted) |->
        [kind |-> "register", body |-> posted[i], started |-> FALSE, met |-> {}]]

\* POST /nodes/register at this node with the body node_list. Node B, when
\* the broadcast reaches it (reached), runs the same handler on the node it is
\* told, and broadcasts to its own peers in turn. What B posts back to this
\* node finds this node's loop inside the handler: it times out there, or it
\* is accepted by the server and waits for the loop (queued).
RegisterNodesWith(node_list, reached, queued) ==
    /\ constructed
    /\ Cardinality(nodes \cup Netlocs(node_list)) <= MaxNodes
    /\ LET out == register_nodes(Self, node_list, AddrB)
           heard == register_nodes(peer, out.posted, AddrA)
       IN  /\ Commit(out.L)
           /\ ret' = [op |-> "register_nodes", exc |-> out.exc, val |-> out.val,
                      arg |-> node_list, found |-> nodes]
           /\ peer' = IF reached THEN heard.L ELSE peer
           /\ inflight' = IF reached /\ queued
                          THEN inflight \o Forwarded(heard.posted)
                          ELSE inflight
           /\ Len(inflight') <= MaxRequests
    /\ UNCHANGED constructed

\* POST /nodes/register at this node, what node B posts back timing out
RegisterNodes ==
    \E node_list \in NodeLists, reached \in BOOLEAN :
        RegisterNodesWith(node_list, reached, FALSE)

\* POST /nodes/register at this node, the broadcast reaching node B and what
\* B posts back being accepted
RegisterNodesEchoed ==
    \E node_list \in NodeLists : RegisterNodesWith(node_list, TRUE, TRUE)

\* this node's loop takes up a POST /nodes/register that node B forwarded and
\* runs its handler; the broadcast of that handler goes the same way
ServeForwarded ==
    /\ constructed
    /\ LoopFree(inflight)
    /\ \E i \in 1..Len(inflight), reached \in BOOLEAN, queued \in BOOLEAN :
         /\ inflight[i].kind = "register"
         /\ \A k \in 1..(i - 1) : inflight[k].kind # "register"
         /\ LET out == register_nodes(Self, <<inflight[i].body>>, AddrB)
                heard == register_nodes(peer, out.posted, AddrA)
            IN  /\ Commit(out.L)
                /\ ret' = [op |-> "register_nodes", exc |-> out.exc,
                           val |-> out.val, arg |-> <<inflight[i].body>>,
                           found |-> nodes]
                /\ peer' = IF reached THEN heard.L ELSE peer
                /\ inflight' = IF reached /\ queued
                               THEN RemoveAt(inflight, i) \o Forwarded(heard.posted)
                               ELSE RemoveAt(inflight, i)
    /\ UNCHANGED constructed

\* POST /nodes/register at node B; B broadcasts to its peers, and this node,
\* when it is one of them and the broadcast reaches it, runs the handler on
\* the node it is told
PeerRegisterNodes ==
    /\ constructed
    /\ \E node_list \in NodeLists, reached \in BOOLEAN :
         /\ Cardinality(peer.nodes \cup Netlocs(node_list)) <= MaxNodes
         /\ Cardinality(nodes \cup Netlocs(node_list)) <= MaxNodes
         /\ LET there == register_nodes(peer, node_list, AddrA)
                here == register_nodes(Self, there.posted, AddrB)
            IN  /\ peer' = there.L
                /\ IF reached /\ there.posted # <<>>
                   THEN /\ Commit(here.L)
                        /\ ret' = [op |-> "register_nodes", exc |-> here.exc,
                                   val |-> here.val, arg |-> there.posted,
                                   found |-> nodes]
                   ELSE UNCHANGED <<chain, current_transactions, nodes, blocks,
                                    transactions, node_collection, nextId, ret>>
    /\ UNCHANGED <<constructed, inflight>>

\* DELETE /nodes/{node_id}
UnregisterNodeWith(node_id) ==
    /\ constructed
    /\ LET out == unregister_node(Self, node_id)
       IN  /\ Commit(out.L)
           /\ ret' = [op |-> "unregister_node", exc |-> out.exc, val |-> out.val,
                      arg |-> node_id, found |-> nodes]
    /\ UNCHANGED <<constructed, peer, inflight>>

UnregisterNode == \E node_id \in Addresses : UnregisterNodeWith(node_id)

\* POST /nodes/unregister
UnregisterNodesWith(node_list) ==
    /\ constructed
    /\ LET out == unregister_nodes(Self, node_list, 1)
       IN  /\ Commit(out.L)
           /\ ret' = [op |-> "unregister_nodes", exc |-> out.exc, val |-> out.val,
                      arg |-> node_list, found |-> nodes]
    /\ UNCHANGED <<constructed, peer, inflight>>

UnregisterNodes == \E node_list \in NodeLists : UnregisterNodesWith(node_list)

\* the last_proof values a search is started from: the 100 of the genesis
\* block and of test_proof_of_work among them
LastProofs == 0..MaxLastProof

\* a call of Blockchain.proof_of_work
ProofOfWorkCall ==
    /\ constructed
    /\ \E last_proof \in LastProofs :
         ret' = [op |-> "proof_of_work", exc |-> "",
                 val |-> proof_of_work(last_proof), arg |-> last_proof]
    /\ UNCHANGED <<chain, current_transactions, nodes, blocks, transactions,
                   node_collection, nextId, constructed, peer, inflight>>

\* node B is registered with this node
RegisterPeer == RegisterNodeFrom({<<"http://", AddrB>>})

\* node B serves GET /chain when it is asked and answers
PeerServes(answer) ==
    peer' = IF AddrB \in DOMAIN answer /\ answer[AddrB].kind = "response"
            THEN get_blockchain(peer).L ELSE peer

\* a call of Blockchain.resolve_conflicts with the given iteration order and
\* the given answers of the nodes
ResolveConflictsWith(order, answer) ==
    /\ constructed
    /\ nextId[1] < MaxWipes
    /\ LET out == resolve_conflicts(Self, order, answer)
       IN  /\ Commit(out.L)
           /\ ret' = Returned("resolve_conflicts", out)
    /\ PeerServes(answer)
    /\ UNCHANGED <<constructed, inflight>>

AnswerSets(S) == [S -> UNION {Answers(n) : n \in S}]

Inputs(S) ==
    {a \in AnswerSets(S) : \A n \in S : a[n] \in Answers(n)}

ResolveConflicts ==
    \E order \in Orders(nodes), answer \in Inputs(nodes) :
        ResolveConflictsWith(order, answer)

\* GET /nodes/resolve
ResolveEndpointWith(order, answer) ==
    /\ constructed
    /\ nextId[1] < MaxWipes
    /\ LET out == resolve_endpoint(Self, order, answer)
       IN  /\ Commit(out.L)
           /\ ret' = Returned("resolve_endpoint", out)
    /\ PeerServes(answer)
    /\ UNCHANGED <<constructed, inflight>>

ResolveEndpoint ==
    \E order \in Orders(node_collection), answer \in Inputs(node_collection) :
        ResolveEndpointWith(order, answer)

\* node B: GET /mine
PeerMine ==
    /\ Len(peer.chain) < MaxChain
    /\ \E now \in Times :
         peer' = mine_block(peer, None, PeerIdentifier, now).L
    /\ UNCHANGED <<chain, current_transactions, nodes, blocks, transactions,
                   node_collection, nextId, constructed, ret, inflight>>

\* the chains got from c by changing one field of one block, or by cutting c
Tampered(c) ==
    {[c EXCEPT ![i].previous_hash = Str("tampered")] : i \in 2..Len(c)}
    \cup {[c EXCEPT ![i].proof = 12345] : i \in 1..Len(c)}
    \cup {[c EXCEPT ![i].timestamp = 99] : i \in 1..Len(c)}
    \cup {[c EXCEPT ![i] = PopKey(c[i], "proof")] : i \in 1..Len(c)}
    \cup {SubSeq(c, 1, k) : k \in 0..Len(c)}

\* a call of Blockchain.valid_chain, on the node's own chain or on a chain
\* received from elsewhere
ValidChainCall ==
    /\ constructed
    /\ \E c \in ForeignChains \cup {chain} \cup Tampered(chain) \cup Tampered(F3) :
         LET verdict == valid_chain(c)
             raised == verdict \in {"KeyError", "TypeError"}
         IN  ret' = [op |-> "valid_chain",
                     exc |-> IF raised THEN verdict ELSE "",
                     val |-> IF raised THEN None ELSE verdict,
                     arg |-> c]
    /\ UNCHANGED <<chain, current_transactions, nodes, blocks, transactions,
                   node_collection, nextId, constructed, peer, inflight>>

\* the store write a failing new_block trips on
FailedWrites == {"insert_one", "insert_many"}

\* a call of Blockchain.new_block during which a write to the store fails
NewBlockStoreFails ==
    /\ constructed
    /\ Len(chain) < MaxChain
    /\ \E proof \in Proofs, previous_hash \in PreviousHashes, now \in Times,
          failed \in FailedWrites :
         LET out == new_block_failing(Self, proof, previous_hash, now, failed)
         IN  /\ Commit(out.L)
             /\ ret' = Returned("new_block", out)
    /\ UNCHANGED <<constructed, peer, inflight>>

\* blockchain = Blockchain() at import of main.py while the store cannot be
\* read; an exception of __init__ ends the import, and no Blockchain exists
ConstructStoreFails ==
    /\ ~constructed
    /\ \E now \in Times :
         LET out == init_blockchain_failing(Self, now)
         IN  /\ Commit(out.L)
             /\ ret' = Returned("__init__", out)
             /\ constructed' = (out.exc = "")
    /\ UNCHANGED <<peer, inflight>>

\* GET /mine during which a write to the store fails
MineStoreFails ==
    /\ constructed
    /\ Len(chain) < MaxChain
    /\ Len(current_transactions) < MaxPool
    /\ \E miner_address \in MinerAddresses, now \in Times, failed \in FailedWrites :
         LET out == mine_block_failing(Self, miner_address, NodeIdentifier, now, failed)
         IN  /\ Commit(out.L)
             /\ ret' = Returned("mine_block", out)
    /\ UNCHANGED <<constructed, peer, inflight>>

\* a call of Blockchain.register_node during which the write to the store
\* fails
RegisterNodeFailsWith(address) ==
    /\ constructed
    /\ LET out == register_node_failing(Self, address)
       IN  /\ Commit(out.L)
           /\ ret' = [op |-> "register_node", exc |-> out.exc, val |-> out.val,
                      arg |-> address, found |-> nodes]
    /\ UNCHANGED <<constructed, peer, inflight>>

RegisterNodeStoreFails == \E address \in Addresses : RegisterNodeFailsWith(address)

\* GET /chain while the store cannot be read
GetChainStoreFails ==
    /\ constructed
    /\ LET out == get_blockchain_failing(Self)
       IN  /\ Commit(out.L)
           /\ ret' = [op |-> "get_blockchain", exc |-> "", val |-> out.val.code]
    /\ UNCHANGED <<constructed, peer, inflight>>

\* request bodies of POST /transactions
Bodies ==
    [sender : {Str("0xAAAAAA"), Str("sender_address")},
     recipient : {Str("0xBBBBBB")},
     amount : {10, 0},
     signature : {Str("sig")},
     timestamp : Times]

\* POST /transactions
CreateTransaction ==
    /\ constructed
    /\ Len(current_transactions) < MaxPool
    /\ \E transaction \in Bodies :
         LET out == create_transaction(Self, transaction)
         IN  /\ Commit(out.L)
             /\ ret' = Returned("create_transaction", out)
    /\ UNCHANGED <<constructed, peer, inflight>>

\* what a caller of the Blockchain object other than the handlers passes
\* (test_new_transaction: sender "sender_address", no signature)
DirectSenders == {Str("sender_address")}

DirectAmounts == {10, 0, -5}

\* a call of Blockchain.new_transaction with the given arguments, the
\* timestamp left to the clock
NewTransactionWith(sender, recipient, amount, now) ==
    /\ constructed
    /\ Len(current_transactions) < MaxPool
    /\ LET out == new_transaction(Self, sender, recipient, amount, None, now)
       IN  /\ Commit(out.L)
           /\ ret' = Returned("new_transaction", out)
    /\ UNCHANGED <<constructed, peer, inflight>>

NewTransactionDirect ==
    \E sender \in DirectSenders, recipient \in Recipients,
       amount \in DirectAmounts, now \in Times :
        NewTransactionWith(sender, recipient, amount, now)

\* bodies of POST /transactions whose signatures tell them apart
SignedBodies ==
    [sender : {Str("0xAAAAAA")},
     recipient : {Str("0xBBBBBB")},
     amount : {10},
     signature : {Str("sig1"), Str("sig2")},
     timestamp : Times]

\* the signature was submitted before: it is in flight, pending or sealed
Submitted(signature) ==
    \/ \E i \in 1..Len(inflight) :
          inflight[i].kind = "transaction" /\ inflight[i].body.signature = signature
    \/ \E i \in 1..Len(current_transactions) :
          /\ Has(current_transactions[i], "signature")
          /\ current_transactions[i].signature = signature
    \/ \E i \in 1..Len(chain), k \in 1..MaxPool + 1 :
          /\ k <= Len(chain[i].transactions)
          /\ Has(chain[i].transactions[k], "signature")
          /\ chain[i].transactions[k].signature = signature

InFlight(kind) == {i \in 1..Len(inflight) : inflight[i].kind = kind}

\* what clients may send now: a GET /mine, a GET /chain, or a POST
\* /transactions with a transaction not submitted before
Requests ==
    (IF Len(chain) + Cardinality(InFlight("mine")) < MaxChain
     THEN {[kind |-> "mine", body |-> None]}
     ELSE {})
    \cup {[kind |-> "chain", body |-> None]}
    \cup {[kind |-> "transaction", body |-> b] :
            b \in {t \in SignedBodies :
                     /\ ~Submitted(t.signature)
                     /\ Len(current_transactions)
                          + Cardinality(InFlight("transaction")) < MaxPool}}

\* the server accepts a request while others are in flight
Accept ==
    /\ constructed
    /\ Len(inflight) < MaxRequests
    /\ \E req \in Requests :
         inflight' =
             Append([i \in 1..Len(inflight) |->
                        [inflight[i] EXCEPT !.met = @ \cup {req.kind}]],
                    [kind |-> req.kind, body |-> req.body, started |-> FALSE,
                     met |-> {inflight[i].kind : i \in 1..Len(inflight)}])
    /\ UNCHANGED <<chain, current_transactions, nodes, blocks, transactions,
                   node_collection, nextId, constructed, ret, peer>>

\* the event loop takes up the handler of a waiting request
StartAt(i) ==
    /\ constructed
    /\ LoopFree(inflight)
    /\ i \in 1..Len(inflight)
    /\ inflight' = [inflight EXCEPT ![i].started = TRUE]
    /\ UNCHANGED <<chain, current_transactions, nodes, blocks, transactions,
                   node_collection, nextId, constructed, ret, peer>>

Start == \E i \in 1..MaxRequests : StartAt(i)

\* the handler the loop is running returns: its effect on the ledger, its
\* answer, and the request leaves the server
Finish ==
    /\ constructed
    /\ \E i \in 1..Len(inflight), now \in Times :
         /\ inflight[i].started
         /\ LET out == Handle(Self, inflight[i], NodeIdentifier, now)
            IN  /\ Commit(out.L)
                /\ ret' = [op |-> HandlerOf(inflight[i].kind), exc |-> out.exc,
                           val |-> out.val, met |-> inflight[i].met]
         /\ inflight' = RemoveAt(inflight, i)
    /\ UNCHANGED <<constructed, peer>>

Next ==
    \/ Construct
    \/ Restart
    \/ NewTransaction
    \/ NewBlock
    \/ Mine
    \/ GetChain
    \/ RegisterNode
    \/ ResolveConflicts
    \/ ResolveEndpoint

Spec == Init /\ [][Next]_vars

\* the node without direct calls of new_block
NextNode ==
    \/ Construct
    \/ Restart
    \/ NewTransaction
    \/ Mine
    \/ GetChain
    \/ RegisterNode
    \/ ResolveConflicts
    \/ ResolveEndpoint

SpecNode == Init /\ [][NextNode]_vars

\* a ledger that only takes transactions and mines, over restarts
NextMined ==
    \/ Construct
    \/ Restart
    \/ NewTransaction
    \/ MineStep
    \/ Mine

SpecMined == Init /\ [][NextMined]_vars

\* a mining ledger whose valid_chain is called on its own chain and on others
NextValidator ==
    \/ Construct
    \/ NewTransaction
    \/ MineStep
    \/ ValidChainCall

SpecValidator == Init /\ [][NextValidator]_vars

\* this node and node B, each mining, this node resolving against B
NextPeers ==
    \/ Construct
    \/ NewTransaction
    \/ Mine
    \/ GetChain
    \/ RegisterPeer
    \/ PeerMine
    \/ ResolveConflicts
    \/ ResolveEndpoint

SpecPeers == Init /\ [][NextPeers]_vars

\* the ledger over a store whose reads and writes may fail
NextFaults ==
    \/ Construct
    \/ NewTransaction
    \/ NewBlock
    \/ Mine
    \/ GetChain
    \/ NewBlockStoreFails
    \/ GetChainStoreFails
    \/ Restart
    \/ ConstructStoreFails

SpecFaults == Init /\ [][NextFaults]_vars

\* the ledger taking transactions from the endpoint and from direct callers
NextLedger ==
    \/ Construct
    \/ CreateTransaction
    \/ NewTransactionDirect
    \/ MineStep

SpecLedger == Init /\ [][NextLedger]_vars

\* the node behind its server: requests come in while others are in flight,
\* the event loop runs their handlers
NextServer ==
    \/ Construct
    \/ Accept
    \/ Start
    \/ Finish

SpecServer == Init /\ [][NextServer]_vars

\* the registry of peers of one node
NextRegistry ==
    \/ Construct
    \/ Restart
    \/ RegisterNodeCall
    \/ RegisterNodes
    \/ PeerRegisterNodes
    \/ UnregisterNode
    \/ UnregisterNodes

SpecRegistry == Init /\ [][NextRegistry]_vars

\* the proof search on its own
NextWork ==
    \/ Construct
    \/ ProofOfWorkCall

SpecWork == Init /\ [][NextWork]_vars

\* mining at one node, with attempts that fail at the store among the others
NextMining ==
    \/ Construct
    \/ NewTransaction
    \/ Mine
    \/ MineStoreFails

SpecMining == Init /\ [][NextMining]_vars

\* the registry of peers over a store whose writes may fail
NextRegistryFaults ==
    \/ Construct
    \/ Restart
    \/ RegisterNodeCall
    \/ RegisterNodeStoreFails
    \/ UnregisterNode
    \/ UnregisterNodes
    \/ GetChain
    \/ RegisterNodes

SpecRegistryFaults == Init /\ [][NextRegistryFaults]_vars

\* two nodes that come to know each other, and the registrations that travel
\* between them
\* a registration by a client, made while no earlier one is still travelling
ClientRegisters ==
    /\ inflight = <<>>
    /\ RegisterNodes \/ RegisterNodesEchoed \/ PeerRegisterNodes

NextBroadcast ==
    \/ Construct
    \/ ClientRegisters
    \/ ServeForwarded

SpecBroadcast == Init /\ [][NextBroadcast]_vars

\* the event loop serves every request its server has accepted
SpecBroadcastFair == SpecBroadcast /\ WF_vars(ServeForwarded)

\* ------------------------------------------------------------------ properties
\* block.previous_hash == hash(last_block), as a statement about two blocks
HashLinked(last_block, block) ==
    /\ Has(block, "previous_hash")
    /\ ~HashRaises(last_block)
    /\ block.previous_hash = hash(last_block)

\* valid_proof(last_block.proof, block.proof), as a statement about two blocks
ProofLinked(last_block, block) ==
    /\ Has(last_block, "proof")
    /\ Has(block, "proof")
    /\ valid_proof(last_block.proof, block.proof)

\* C1: a Blockchain constructed over an empty store has exactly one block,
\* and that block has index 1, proof 100 and previous_hash "1".
C1_GenesisBlock ==
    [][(~constructed /\ constructed' /\ blocks = <<>>)
          => /\ Len(chain') = 1
             /\ chain'[1].index = 1
             /\ chain'[1].proof = 100
             /\ chain'[1].previous_hash = Str("1")]_vars

\* C2: in every reachable state every non-first block of the local chain
\* carries the hash of the block before it.
C2_HashLinkage ==
    constructed => \A i \in 2..Len(chain) : HashLinked(chain[i - 1], chain[i])

\* C3: in every reachable state the proof of every non-first block of the
\* local chain is valid against the proof of the block before it.
C3_ProofLinkage ==
    constructed => \A i \in 2..Len(chain) : ProofLinked(chain[i - 1], chain[i])

\* C4: a chain built from genesis by mining steps, with transactions
\* submitted in between, is accepted by valid_chain.
C4_MinedChainAccepted == constructed => valid_chain(chain) = "True"

\* C4 happens: three blocks, the second sealed with a submitted transaction
\* and the reward, accepted
C4_Witness ==
    /\ constructed
    /\ Len(chain) = 3
    /\ Len(chain[2].transactions) = 2
    /\ valid_chain(chain) = "True"

\* C5: a successful new_block on a non-empty chain makes the chain one block
\* longer, gives the new block the index of the old last block plus one, the
\* given proof and previous_hash (the hash of the last block when omitted),
\* and leaves the pool empty.
C5_ChainGrowth ==
    [][\A proof \in Proofs, previous_hash \in PreviousHashes, now \in Times :
          (NewBlockWith(proof, previous_hash, now) /\ ret'.exc = "" /\ chain # <<>>)
             => /\ Len(chain') = Len(chain) + 1
                /\ SubSeq(chain', 1, Len(chain)) = chain
                /\ Last(chain').index = Last(chain).index + 1
                /\ Last(chain').proof = proof
                /\ Last(chain').previous_hash =
                       (IF previous_hash # None THEN previous_hash
                        ELSE hash(Last(chain)))
                /\ current_transactions' = <<>>]_vars

\* every consecutive pair of the chain passes both checks
AllPairsLinked(c) ==
    \A i \in 2..Len(c) : HashLinked(c[i - 1], c[i]) /\ ProofLinked(c[i - 1], c[i])

\* C6: valid_chain returns true exactly when the chain is non-empty and every
\* consecutive pair passes the hash-linkage check and the proof-of-work check.
C6_ValidChainExact ==
    ret.op = "valid_chain"
        => (ret.val = "True" <=> (ret.arg # <<>> /\ AllPairsLinked(ret.arg)))

\* C6 happens: the node's own three blocks are accepted, and the call was on
\* that chain with the proof of its last block changed, which is rejected
C6_Witness ==
    /\ ret.op = "valid_chain"
    /\ Len(chain) = 3
    /\ valid_chain(chain) = "True"
    /\ ret.arg = [chain EXCEPT ![3].proof = 12345]
    /\ ret.val = "False"

\* the answer r offers a chain resolve_conflicts may adopt over a local chain
\* of local_length blocks: a reported length above it, and accepted
Qualifies(r, local_length) ==
    /\ r.kind = "response"
    /\ r.status_code = 200
    /\ Has(r.body, "data")
    /\ Has(r.body.data, "chain")
    /\ Has(r.body.data, "chain_length")
    /\ r.body.data.chain_length > local_length
    /\ valid_chain(r.body.data.chain) = "True"

\* C7: resolve_conflicts returns false and leaves the local chain unchanged
\* when there are no peers, or no peer reports a longer chain that passes
\* valid_chain.
C7_ResolveKeeps ==
    [][ret'.op = "resolve_conflicts" =>
        \A order \in Orders(nodes), answer \in Inputs(nodes) :
          (/\ ResolveConflictsWith(order, answer)
           /\ \A n \in nodes : ~Qualifies(answer[n], Len(chain)))
             => (ret'.exc = "" /\ ret'.val = "False" /\ chain' = chain)]_vars

\* position in order of the peer whose chain is to win: the first of the
\* qualifying peers with the greatest reported length
Winner(order, answer, local_length) ==
    CHOOSE i \in 1..Len(order) :
        /\ Qualifies(answer[order[i]], local_length)
        /\ \A j \in 1..Len(order) :
              Qualifies(answer[order[j]], local_length) =>
                 LET li == answer[order[i]].body.data.chain_length
                     lj == answer[order[j]].body.data.chain_length
                 IN  lj < li \/ (lj = li /\ i <= j)

\* C8: when some peer qualifies, resolve_conflicts returns true and the local
\* chain becomes the chain of the qualifying peer with the greatest reported
\* length, the first iterated among equals (blocks compared without the _id
\* the store adds).
C8_ResolveAdopts ==
    [][ret'.op = "resolve_conflicts" =>
        \A order \in Orders(nodes), answer \in Inputs(nodes) :
          (/\ ResolveConflictsWith(order, answer)
           /\ \E n \in nodes : Qualifies(answer[n], Len(chain)))
             => /\ ret'.exc = ""
                /\ ret'.val = "True"
                /\ StripIds(chain') =
                       answer[order[Winner(order, answer, Len(chain))]].body.data.chain]_vars

\* C9: when node B is registered with this node and answers, and B's mined
\* chain is longer than this node's, resolve_conflicts returns true and this
\* node's chain becomes B's chain (blocks compared as GET /chain serves them).
C9_Convergence ==
    [][ret'.op = "resolve_conflicts" =>
        \A order \in Orders(nodes), answer \in Inputs(nodes) :
          (/\ ResolveConflictsWith(order, answer)
           /\ AddrB \in nodes
           /\ answer[AddrB].kind = "response"
           /\ Len(peer.chain) > Len(chain))
             => /\ ret'.exc = ""
                /\ ret'.val = "True"
                /\ WireChain(chain') = WireChain(peer.chain)]_vars

\* the answer r is of a peer to skip: no response, an error status, a body
\* without the chain, or a chain whose validation cannot be carried through
Faulty(r) ==
    \/ r.kind # "response"
    \/ r.status_code # 200
    \/ ~Has(r.body, "data")
    \/ ~Has(r.body.data, "chain")
    \/ valid_chain(r.body.data.chain) \in {"KeyError", "TypeError"}

\* the answers with every faulty peer's taken as no answer at all
Skipped(answer) ==
    [n \in DOMAIN answer |-> IF Faulty(answer[n]) THEN Unreachable ELSE answer[n]]

\* C10: a faulty peer is skipped during resolve_conflicts: the call ends as
\* it would with that peer unreachable, the other peers considered, and no
\* error of the peer reaches the caller.
C10_PeerIsolation ==
    [][ret'.op = "resolve_conflicts" =>
        \A order \in Orders(nodes), answer \in Inputs(nodes) :
          ResolveConflictsWith(order, answer) =>
             LET out == resolve_conflicts(Self, order, Skipped(answer))
             IN  /\ ret'.exc = out.exc
                 /\ ret'.val = out.val
                 /\ chain' = out.L.chain]_vars

\* C11: when a store write fails during new_block, the call fails as a whole:
\* the chain and the pool in memory are as before the call, and the chain a
\* reload from the store gives is the one a reload gave before the call.
C11_FailedSealInvisible ==
    [][(ret'.op = "new_block" /\ ret'.exc = "PyMongoError")
          => /\ chain' = chain
             /\ current_transactions' = current_transactions
             /\ load_from_database(Self').chain = load_from_database(Self).chain]_vars

\* C12: a transaction in the pending pool stays there, at its place, through
\* every operation of the running node other than a successful seal (a
\* new_block that returns, a mine that answers MSG_0063).
C12_PendingStays ==
    [][(/\ constructed
        /\ constructed'
        /\ ~(ret'.op = "new_block" /\ ret'.exc = "")
        /\ ~(ret'.op = "mine_block" /\ ret'.val = "MSG_0063"))
          => /\ Len(current_transactions') >= Len(current_transactions)
             /\ SubSeq(current_transactions', 1, Len(current_transactions))
                    = current_transactions]_vars

\* C13: new_transaction rejects an amount that is not greater than 0 with an
\* InvalidTransaction error and leaves the pending pool unchanged, whoever
\* the caller is.
C13_NonPositiveRejected ==
    [][\A sender \in DirectSenders, recipient \in Recipients,
          amount \in DirectAmounts, now \in Times :
          (NewTransactionWith(sender, recipient, amount, now) /\ amount <= 0)
             => /\ ret'.exc = "InvalidTransaction"
                /\ current_transactions' = current_transactions]_vars

\* C14: new_transaction appends exactly one entry to the pool, leaves the
\* chain alone, and returns last_block.index + 1, which is the index the next
\* successful new_block gives its block.
C14_NextIndexReturned ==
    [][(ret'.op = "new_transaction" /\ ret'.exc = "")
          => /\ Len(current_transactions') = Len(current_transactions) + 1
             /\ SubSeq(current_transactions', 1, Len(current_transactions))
                    = current_transactions
             /\ chain' = chain
             /\ ret'.val = Last(chain).index + 1
             /\ \A proof \in Proofs, now \in Times :
                   LET sealed == new_block(Self', proof, Str("previous_hash"), now)
                   IN  sealed.exc = "" => sealed.val.index = ret'.val]_vars

\* C15: in every reachable state the blocks of the local chain have the
\* indices 1, 2, ..., len(chain), in order.
C15_IndexInvariant ==
    constructed =>
        \A i \in 1..Len(chain) : Has(chain[i], "index") /\ chain[i].index = i

\* C16: once the ledger is constructed its chain is never empty.
C16_NeverEmpty == constructed => Len(chain) >= 1

\* C17: a step of the running node changes the local chain only by appending
\* one block or, in resolve_conflicts, by replacing it; otherwise the blocks
\* stay, in their order and with their fields (the _id the store manages
\* aside).
C17_AppendOrReplace ==
    [][(constructed /\ constructed')
          => \/ StripIds(chain') = StripIds(chain)
             \/ /\ Len(chain') = Len(chain) + 1
                /\ StripIds(SubSeq(chain', 1, Len(chain))) = StripIds(chain)
             \/ ret'.op \in {"resolve_conflicts", "resolve_endpoint"}]_vars

\* C18: after resolve_conflicts returns true the store holds the adopted
\* chain: a reload gives the same blocks in the same order, with the hashes
\* the adopted blocks have, and the reloaded chain passes valid_chain.
C18_AdoptionPersisted ==
    [][(ret'.op = "resolve_conflicts" /\ ret'.val = "True")
          => LET reloaded == load_from_database(Self').chain
             IN  /\ StripIds(reloaded) = StripIds(chain')
                 /\ \A i \in 1..Len(reloaded) :
                       hash(reloaded[i]) = hash(StripId(chain'[i]))
                 /\ valid_chain(reloaded) = "True"]_vars

\* the submitted (non-reward) transactions of block i of a chain
Sealed(c, i) ==
    IF Has(c[i], "transactions")
    THEN {c[i].transactions[k] : k \in {k \in 1..Len(c[i].transactions) :
                                         c[i].transactions[k].sender # Str("0")}}
    ELSE {}

\* C19: with mining, submitting and reading requests in flight together at one
\* node, no submitted transaction is sealed into two different blocks, none is
\* sealed twice into one block or sealed and still pending, and no two blocks
\* of the chain or of the store carry the same index.
C19_SealExclusive ==
    constructed =>
       /\ \A i, j \in 1..Len(chain) :
             i # j => /\ Sealed(chain, i) \cap Sealed(chain, j) = {}
                      /\ chain[i].index # chain[j].index
       /\ \A i, j \in 1..Len(blocks) :
             i # j => /\ Sealed(blocks, i) \cap Sealed(blocks, j) = {}
                      /\ blocks[i].index # blocks[j].index
       /\ \A i \in 1..Len(chain), k \in 1..Len(current_transactions) :
             current_transactions[k] \notin Sealed(chain, i)

\* two GET /mine were in flight together, both sealed a block, and a submitted
\* transaction is in exactly one of them
C19_Witness ==
    /\ constructed
    /\ ret.op = "mine_block" /\ ret.val = "MSG_0063" /\ "mine" \in ret.met
    /\ Len(chain) = 3
    /\ \E i \in 1..Len(chain) : Sealed(chain, i) # {}

\* C20: a reader of GET /chain (which reloads the chain from the store) served
\* around a resolve_conflicts sees the full chain of before the call or the
\* full chain of a qualifying peer, never an empty or partly replaced chain.
C20_ReplacementAtomic ==
    [][ret'.op = "resolve_conflicts" =>
        \A order \in Orders(nodes), answer \in Inputs(nodes) :
          ResolveConflictsWith(order, answer) =>
             LET old == get_blockchain(Self).val.data.chain
                 read == get_blockchain(Self').val.data.chain
             IN  \/ read = old
                 \/ \E n \in nodes :
                       /\ Qualifies(answer[n], Len(chain))
                       /\ read = WireChain(answer[n].body.data.chain)]_vars

\* C21: when the store cannot be read while the ledger is constructed, the
\* construction ends without raising, with a chain of the genesis block alone
\* and an empty pool, also when the store already holds a block of index 1.
C21_StartupTolerance ==
    [][ConstructStoreFails =>
          /\ ret'.exc = ""
          /\ constructed'
          /\ Len(chain') = 1
          /\ chain'[1].index = 1
          /\ current_transactions' = <<>>]_vars

C23_InvalidAddressRejected ==
    /\ (ret.op = "register_node" /\ ret.arg[2] = "") =>
          /\ ret.exc = "InvalidAddress"
          /\ nodes = ret.found
          /\ node_collection = ret.found
    /\ ret.op = "register_nodes" =>
          \A i \in 1..Len(ret.arg) :
             ret.arg[i][2] = "" =>
                \A k \in 1..Len(ret.val.registered_nodes) :
                   ret.val.registered_nodes[k] # WithScheme(ret.arg[i])

\* C24: the node set of a constructed node never holds the node's own
\* host:port, whatever is registered at its endpoint or forwarded to it by the
\* broadcast of a peer.
C24_NoSelfRegistration == constructed => AddrA \notin nodes

C26_FirstValidProof ==
    ret.op = "proof_of_work" =>
       /\ ret.val \in Nat
       /\ valid_proof(ret.arg, ret.val)
       /\ \A q \in 0..(ret.val - 1) : ~valid_proof(ret.arg, q)

\* the search of test_proof_of_work, from last_proof 100, which passes a
\* candidate that is not valid before it ends
C26_Witness ==
    /\ ret.op = "proof_of_work"
    /\ ret.arg = 100
    /\ ret.val >= 1
    /\ ~valid_proof(100, 0)

\* C27: the digest of a block depends on its field values alone: every block
\* of the chain has a digest, and the digest of a stored block as the ledger
\* reloads it is the digest of the block as it was handed to the store.
C27_HashDeterminism ==
    constructed =>
       /\ \A i \in 1..Len(chain) : ~HashRaises(chain[i])
       /\ \A i \in 1..Len(blocks) :
             LET handed == PopKey(blocks[i], "_id")
                 reloaded == convert_mongo_doc(blocks[i])
             IN  hash(reloaded) = hash(handed)

\* C30: GET /mine with a miner_address that does not match the address
\* pattern answers ERR_0041 and leaves chain, pool and store as they were: no
\* reward transaction is added and no block is sealed.
C30_BadMinerRejected ==
    [][ret'.op = "mine_block" =>
         \A miner_address \in MinerAddresses, now \in Times :
            (/\ MineWith(miner_address, now)
             /\ miner_address # None
             /\ ~AddressOk(miner_address))
               => /\ ret'.val = "ERR_0041"
                  /\ UNCHANGED <<chain, current_transactions, blocks, transactions>>]_vars

\* the reward transaction GET /mine adds for reward_recipient
IsReward(tx, reward_recipient) ==
    /\ tx.sender = Str("0")
    /\ tx.recipient = reward_recipient
    /\ tx.amount = 1

C28_MiningDoesNotBlock ==
    \A i, j \in 1..Len(inflight) :
       (/\ inflight[j].kind = "mine"
        /\ inflight[j].started
        /\ inflight[i].kind \in {"transaction", "chain"})
          => ENABLED StartAt(i)

\* C31: when the write to the store fails while a new peer is registered,
\* register_node raises ValueError, and the node set and the stored nodes are
\* those of before the call.
C31_FailedRegistrationUndone ==
    [][(ret'.op = "register_node" /\ ret'.exc # "") =>
         \A address \in Addresses :
            RegisterNodeFailsWith(address) =>
               /\ (address[2] # "" /\ address[2] \notin nodes)
                     => ret'.exc = "ValueError"
               /\ nodes' = nodes
               /\ node_collection' = node_collection]_vars

\* y:5000 could not be stored, and the node set holds x:5000 alone as before
C31_Witness ==
    /\ ret.op = "register_node"
    /\ ret.exc = "ValueError"
    /\ ret.arg = <<"https://", AddrY>>
    /\ ret.found = {AddrX}
    /\ nodes = {AddrX}
    /\ node_collection = {AddrX}

\* C32: resolve_conflicts never shortens the local chain: after a call the
\* chain has at least the blocks it had in number, and when the call returns
\* true the adopted chain has more blocks than the chain it replaces, whatever
\* chain_length the peers report.
C32_NeverShortens ==
    [][ret'.op = "resolve_conflicts" =>
          /\ Len(chain') >= Len(chain)
          /\ ret'.val = "True" => Len(chain') > Len(chain)]_vars

\* C33: a chain valid_chain accepts starts with a genesis block: its first
\* block has index 1 and the sentinel '1' as previous_hash; a chain of one
\* block of any content is not accepted.
C33_AcceptedStartsAtGenesis ==
    (ret.op = "valid_chain" /\ ret.val = "True") =>
       /\ Has(ret.arg[1], "index")
       /\ ret.arg[1].index = 1
       /\ Has(ret.arg[1], "previous_hash")
       /\ ret.arg[1].previous_hash = Str("1")

\* C34: mining is not wedged by a store failure that has passed: after a
\* new_block that failed with its block document inserted and its
\* transactions not, the next new_block or GET /mine on the same ledger, the
\* store answering again, succeeds and appends a block.
C34_MiningNotWedged ==
    [][(/\ ret.op = "new_block"
        /\ ret.exc = "PyMongoError"
        /\ Len(blocks) > Len(chain)
        /\ NewBlock \/ \E now \in Times : MineWith(None, now))
          => /\ ret'.exc = ""
             /\ ret'.op = "mine_block" => ret'.val = "MSG_0063"
             /\ Len(chain') = Len(chain) + 1]_vars

\* C35: the broadcast of a registration ends: a registration at a node
\* causes finitely many /nodes/register requests between nodes that know each
\* other, a registration of a peer already known not being broadcast again,
\* so that after every registration there comes a moment when no forwarded
\* registration is waiting or travelling.
C35_BroadcastQuiesces == []<>(inflight = <<>>)

====
